---- MODULE Spec2Model ----
(***************************************************************************)
(* Model of the two chat screens of src/components/chat/ChatInterface.tsx: *)
(* ChatInterface (sendMessage, processFileUpload, processImageUpload and   *)
(* its delayed bill-response callback) and MessagingApp                    *)
(* (handleSendMessage), together with the pure helper                      *)
(* getFallbackSuggestion.                                                  *)
(*                                                                         *)
(* Text is a sequence of chunks.  Where the program looks inside a string  *)
(* (trim, toLowerCase, includes, startsWith, substring) the chunks are     *)
(* single characters; a literal of the source that the program only        *)
(* concatenates or stores is one chunk.  Confidences are in hundredths     *)
(* (0.1 is 10, 0.95 is 95).                                                *)
(*                                                                         *)
(* One JavaScript run-to-completion segment (an event handler up to its    *)
(* first await, the continuation after an await, a timer callback) is one  *)
(* action.  React state read by a handler is the state of the last render, *)
(* which is the current state at the start of the segment.                 *)
(***************************************************************************)
EXTENDS Integers, Sequences, FiniteSets, TLC

(* ------------------------------ bounds -------------------------------- *)
\* operations (accepted sends and image uploads) started in one run
MaxOps == 2
\* last value of the wall clock
MaxClock == 2
\* fragments typed into the input of the suggestion specification
MaxFrags == 3
\* messages a chat holds when the screen is mounted on it, at most
MaxPrior == 11

(* ------------------------------ text ---------------------------------- *)
UpperChars == <<"A","B","C","D","E","F","G","H","I","J","K","L","M",
                "N","O","P","Q","R","S","T","U","V","W","X","Y","Z">>
LowerChars == <<"a","b","c","d","e","f","g","h","i","j","k","l","m",
                "n","o","p","q","r","s","t","u","v","w","x","y","z">>
WhiteSpace == {" ", "\n", "\t"}

toLowerChar(c) ==
  IF \E i \in 1..Len(UpperChars) : UpperChars[i] = c
  THEN LowerChars[CHOOSE i \in 1..Len(UpperChars) : UpperChars[i] = c]
  ELSE c

\* String.prototype.toLowerCase
toLowerCase(s) == [i \in 1..Len(s) |-> toLowerChar(s[i])]

\* String.prototype.includes
includes(s, k) ==
  \E i \in 1..(Len(s) - Len(k) + 1) : SubSeq(s, i, i + Len(k) - 1) = k

\* String.prototype.startsWith
startsWith(s, p) == Len(s) >= Len(p) /\ SubSeq(s, 1, Len(p)) = p

\* substring with its end ignored
substring_Whole(s, a, b) == SubSeq(s, a + 1, Len(s))

\* String.prototype.substring(a, b), 0-based, end exclusive
substring(s, a, b) ==
  LET hi == IF b < Len(s) THEN b ELSE Len(s) IN SubSeq(s, a + 1, hi)

RECURSIVE trimStart(_)
trimStart(s) ==
  IF s # <<>> /\ Head(s) \in WhiteSpace THEN trimStart(Tail(s)) ELSE s

RECURSIVE trimEnd(_)
trimEnd(s) ==
  IF s # <<>> /\ s[Len(s)] \in WhiteSpace
  THEN trimEnd(SubSeq(s, 1, Len(s) - 1)) ELSE s

\* String.prototype.trim
trim(s) == trimEnd(trimStart(s))

(* ---------------------- getFallbackSuggestion ------------------------- *)
K_route       == <<"r","o","u","t","e">>
K_traffic     == <<"t","r","a","f","f","i","c">>
K_direction   == <<"d","i","r","e","c","t","i","o","n">>
K_bill        == <<"b","i","l","l">>
K_payment     == <<"p","a","y","m","e","n","t">>
K_electricity == <<"e","l","e","c","t","r","i","c","i","t","y">>
K_water       == <<"w","a","t","e","r">>
K_summary     == <<"s","u","m","m","a","r","y">>
K_group       == <<"g","r","o","u","p">>
K_sahaay      == <<"@","s","a","h","a","a","y">>
K_weather     == <<"w","e","a","t","h","e","r">>
K_temperature == <<"t","e","m","p","e","r","a","t","u","r","e">>
K_translate   == <<"t","r","a","n","s","l","a","t","e">>
K_meaning     == <<"m","e","a","n","i","n","g">>

SuggestRoute     == <<"\n\n**For route planning:** Try \"I need to go from [location] to [destination]\" or check Google Maps/Ola Maps for live navigation.">>
SuggestBill      == <<"\n\n**For bill processing:** Upload a clear photo of your bill, or try describing the bill details (amount, due date, provider).">>
SuggestGroup     == <<"\n\n**For group features:** Try \"@Sahaay summary of last 3 days\" or \"summarize recent messages\" for conversation insights.">>
SuggestWeather   == <<"\n\n**For weather:** Check weather apps or try \"What's the weather like in [city]?\"">>
SuggestTranslate == <<"\n\n**For translation:** Try Google Translate or specify the languages: \"Translate [text] from [language] to [language]\"">>
SuggestDefault   == <<"\n\n**Try asking about:** Routes, bills, weather, translations, or group summaries. Be specific for better results!">>

\* the order of the branches, swapped for the first two
getFallbackSuggestion_BillFirst(message) ==
  LET lowerMessage == toLowerCase(message) IN
  IF includes(lowerMessage, K_bill) \/ includes(lowerMessage, K_payment)
     \/ includes(lowerMessage, K_electricity) \/ includes(lowerMessage, K_water)
  THEN SuggestBill
  ELSE IF includes(lowerMessage, K_route) \/ includes(lowerMessage, K_traffic)
          \/ includes(lowerMessage, K_direction)
  THEN SuggestRoute
  ELSE IF includes(lowerMessage, K_summary) \/ includes(lowerMessage, K_group)
          \/ includes(lowerMessage, K_sahaay)
  THEN SuggestGroup
  ELSE IF includes(lowerMessage, K_weather) \/ includes(lowerMessage, K_temperature)
  THEN SuggestWeather
  ELSE IF includes(lowerMessage, K_translate) \/ includes(lowerMessage, K_meaning)
  THEN SuggestTranslate
  ELSE SuggestDefault

getFallbackSuggestion(message) ==
  LET lowerMessage == toLowerCase(message) IN
  IF includes(lowerMessage, K_route) \/ includes(lowerMessage, K_traffic)
     \/ includes(lowerMessage, K_direction)
  THEN SuggestRoute
  ELSE IF includes(lowerMessage, K_bill) \/ includes(lowerMessage, K_payment)
          \/ includes(lowerMessage, K_electricity) \/ includes(lowerMessage, K_water)
  THEN SuggestBill
  ELSE IF includes(lowerMessage, K_summary) \/ includes(lowerMessage, K_group)
          \/ includes(lowerMessage, K_sahaay)
  THEN SuggestGroup
  ELSE IF includes(lowerMessage, K_weather) \/ includes(lowerMessage, K_temperature)
  THEN SuggestWeather
  ELSE IF includes(lowerMessage, K_translate) \/ includes(lowerMessage, K_meaning)
  THEN SuggestTranslate
  ELSE SuggestDefault

(* ------------------------------ messages ------------------------------ *)
AIDisclaimer       == "AI-generated response. Verify important information independently."
FallbackDisclaimer == "This is a fallback response due to AI service unavailability. Please configure your AI provider in Settings for full functionality."
BillDisclaimer     == "Bill processing is automated. Please verify details before payment."
ErrorDisclaimer    == "Error occurred during file processing."
FallbackIntro      == <<"I'm currently having trouble connecting to the AI service. [...] **Based on your message, here are some immediate suggestions:**">>
BillContent        == <<"I can see this is a BESCOM electricity bill. [...] Would you like me to create a UPI payment link or set a reminder?">>
BillActionItems    == <<"Create UPI Payment Link", "Set Reminder", "View Bill Details">>
ImagePrefix        == <<"Image uploaded: ">>
ErrorPrefix        == <<"Error processing image: ">>
TooLargeError      == <<"File size too large. Please select an image under 10MB.">>
InvalidTypeError   == <<"Invalid file type. Please select an image file.">>

\* confidence of the fallback message, 0.1 in hundredths
FallbackConfidence == 10
\* confidence of the bill response, 0.95 in hundredths
BillConfidence == 95
\* confidence of the upload error message
ErrorConfidence == 0
\* length of the preview handed to onChatUpdate
PreviewLen == 100
\* 10 * 1024 * 1024 bytes
MaxFileSize == 10 * 1024 * 1024
\* MessagingApp: currentMessages.slice(-10)
HistoryWindow == 10

\* `msg-${Date.now()}`
msgId(t) == <<"msg-", t>>

\* `msg-${Date.now() + 2}` in place of + 1
replyId_Plus2(t) == <<"msg-", t + 2>>

\* `msg-${Date.now() + 1}`
replyId(t) == <<"msg-", t + 1>>

userMessage(t, text) ==
  [id |-> msgId(t), content |-> text, sender |-> "user", timestamp |-> t,
   type |-> "text"]

\* the AI message carrying a fixed confidence
aiMessage_FixedConfidence(t, aiResponseContent, moodAnalysis) ==
  [id |-> replyId(t), content |-> aiResponseContent, sender |-> "ai",
   timestamp |-> t, type |-> "text",
   metadata |-> [confidence |-> 50, disclaimer |-> AIDisclaimer]]

aiMessage(t, aiResponseContent, moodAnalysis) ==
  [id |-> replyId(t), content |-> aiResponseContent, sender |-> "ai",
   timestamp |-> t, type |-> "text",
   metadata |-> [confidence |-> moodAnalysis.confidence,
                 disclaimer |-> AIDisclaimer]]

\* the fallback message without its disclaimer
fallbackMessage_NoDisclaimer(t, currentMessage) ==
  [id |-> replyId(t),
   content |-> FallbackIntro \o getFallbackSuggestion(currentMessage),
   sender |-> "ai", timestamp |-> t, type |-> "text",
   metadata |-> [confidence |-> FallbackConfidence, disclaimer |-> ""]]

fallbackMessage(t, currentMessage) ==
  [id |-> replyId(t),
   content |-> FallbackIntro \o getFallbackSuggestion(currentMessage),
   sender |-> "ai", timestamp |-> t, type |-> "text",
   metadata |-> [confidence |-> FallbackConfidence,
                 disclaimer |-> FallbackDisclaimer]]

imageMessage(t, file) ==
  [id |-> msgId(t), content |-> ImagePrefix \o file.name, sender |-> "user",
   timestamp |-> t, type |-> "image"]

billResponse(t) ==
  [id |-> replyId(t), content |-> BillContent, sender |-> "ai",
   timestamp |-> t, type |-> "text",
   metadata |-> [confidence |-> BillConfidence,
                 actionItems |-> BillActionItems,
                 disclaimer |-> BillDisclaimer]]

\* the error message carrying the confidence of a bill response
errorResponse_Confident(t, errorMessage) ==
  [id |-> replyId(t), content |-> ErrorPrefix \o errorMessage, sender |-> "ai",
   timestamp |-> t, type |-> "text",
   metadata |-> [confidence |-> BillConfidence,
                 disclaimer |-> ErrorDisclaimer]]

errorResponse(t, errorMessage) ==
  [id |-> replyId(t), content |-> ErrorPrefix \o errorMessage, sender |-> "ai",
   timestamp |-> t, type |-> "text",
   metadata |-> [confidence |-> ErrorConfidence,
                 disclaimer |-> ErrorDisclaimer]]

\* the updater returning currentMessages in place of updatedMessages
appendUpdater_Drop(currentMessages, m) == currentMessages

\* a blind overwrite in place of the read-then-append
appendUpdater_Blind(currentMessages, m) == <<m>>

\* the new message put in front of the list
appendUpdater_Prepend(currentMessages, m) == <<m>> \o currentMessages

\* prev => [...currentMessages, m]
appendUpdater(currentMessages, m) == Append(currentMessages, m)

\* (messages || []).map(msg => ({...})) of sendMessage
aiServiceMessages(msgs) ==
  [i \in 1..Len(msgs) |->
     [msgs[i] EXCEPT !.sender = IF msgs[i].sender = "user" THEN "user" ELSE "ai"]]

\* currentMessages.slice(-10).map(msg => ({role, content})) of handleSendMessage
conversationHistory(msgs) ==
  LET n     == Len(msgs)
      first == IF n > HistoryWindow THEN n - HistoryWindow + 1 ELSE 1
      tl    == SubSeq(msgs, first, n)
  IN [i \in 1..Len(tl) |->
        [role    |-> IF tl[i].sender = "user" THEN "user" ELSE "assistant",
         content |-> tl[i].content]]

(* --------------------------- input domains ---------------------------- *)
T_blank == <<" ", " ">>
T_route == <<" ", "R", "o", "u", "t", "e", " ", "@", "S", "a", "h", "a", "a", "y", " ">>
Texts   == {T_blank, T_route}

R_short == <<"o", "k">>
R_long  == [i \in 1..(PreviewLen + 1) |-> IF i <= PreviewLen THEN "a" ELSE "b"]
Replies == {R_short, R_long}

DefaultMood     == [mood |-> "neutral", confidence |-> 0, suggestions |-> <<>>]
DefaultLocation == [area |-> "", suggestions |-> <<>>]
MoodResults     == {[mood |-> "stressed", confidence |-> 80, suggestions |-> <<>>],
                    [mood |-> "neutral", confidence |-> 10, suggestions |-> <<>>]}
LocationResult  == [area |-> "Bangalore", suggestions |-> <<"traffic">>]

Mime_png == <<"i","m","a","g","e","/","p","n","g">>
Mime_pdf == <<"a","p","p","l","i","c","a","t","i","o","n","/","p","d","f">>
Mime_imagePrefix == <<"i","m","a","g","e","/">>
Files == {[name |-> <<"bill.png">>, type |-> Mime_png, size |-> 1024],
          [name |-> <<"big.png">>,  type |-> Mime_png, size |-> MaxFileSize + 1],
          [name |-> <<"doc.pdf">>,  type |-> Mime_pdf, size |-> 1024]}

ConsentSets == [moodDetection : BOOLEAN, locationServices : BOOLEAN]

(* ------------------------------- state -------------------------------- *)
VARIABLES
  screen,        \* which of the two alternate screens is mounted
  now,           \* the wall clock, Date.now()
  userConsents,  \* ChatInterface prop
  message,       \* ChatInterface: useState('') input text
  isTyping,      \* ChatInterface: useState(false)
  isSending,     \* ChatInterface: useState(false)
  messages,      \* ChatInterface: value of useKV(kvKey, [])
  stored,        \* ChatInterface: whether kvKey holds a value (else prev is undefined)
  pc,            \* ChatInterface: where the sendMessage in flight is suspended
  cur,           \* ChatInterface: locals of the sendMessage in flight
  timers,        \* ChatInterface: pending setTimeout callbacks, oldest first
  chatUpdates,   \* ChatInterface: calls of onChatUpdate so far
  messageInput,  \* MessagingApp: useState('')
  isGenerating,  \* MessagingApp: useState(false)
  currentChatId, \* MessagingApp: store field
  settings,      \* MessagingApp: store field
  maMessages,    \* MessagingApp: messages[currentChatId] of the store
  maPc,          \* MessagingApp: where the handleSendMessage in flight is suspended
  maCur,         \* MessagingApp: locals of the handleSendMessage in flight
  ops,           \* history: operations started (accepted sends, image uploads)
  origin,        \* history: for each stored message, the operation that appended it
  calls,         \* history: calls made to the AI collaborator
  opLog,         \* history: per operation, its input and how it ended
  toasts,        \* history: notifications shown
  ev,            \* history: the guard that rejected the segment just run, if one did
  fbInput,       \* suggestion specification: the input text
  fbFrags,       \* suggestion specification: fragments typed
  fbOut          \* suggestion specification: the last result

ciVars == <<message, isTyping, isSending, messages, stored, pc, cur, timers,
            chatUpdates>>
maVars == <<messageInput, isGenerating, currentChatId, maMessages, maPc, maCur>>
fbVars == <<fbInput, fbFrags, fbOut>>
histVars == <<ops, origin, calls, opLog, toasts>>
vars == <<screen, now, userConsents, settings, ciVars, maVars, fbVars, histVars, ev>>

NoChat == "none"
NoCur == [op |-> 0, currentMessage |-> <<>>, history |-> <<>>,
          moodAnalysis |-> DefaultMood, locationContext |-> DefaultLocation]
NoEv == "none"

Call(op, fn, storeLen, text, mood, location, history, mention) ==
  [op |-> op, fn |-> fn, storeLen |-> storeLen, text |-> text, mood |-> mood,
   location |-> location, history |-> history, isGroupMention |-> mention]

SimpleCall(op, fn, storeLen, text) ==
  Call(op, fn, storeLen, text, DefaultMood, DefaultLocation, <<>>, FALSE)

Origin(op, kind) == [op |-> op, kind |-> kind, t |-> now]

NotCalled == [mood |-> "notCalled", confidence |-> -1, suggestions |-> <<>>]

OpRec(kind, input, outcome) ==
  [kind |-> kind, input |-> input, outcome |-> outcome, failedAt |-> "",
   mood |-> DefaultMood, detected |-> NotCalled, reply |-> <<>>]

NoOut == [input |-> <<>>, out |-> <<>>, done |-> FALSE]
DefaultConsents == [moodDetection |-> FALSE, locationServices |-> FALSE]
DefaultSettings == [aiConfigured |-> FALSE, moodDetection |-> FALSE]

InitCommon ==
  /\ now = 0
  /\ message = <<>> /\ isTyping = FALSE /\ isSending = FALSE
  /\ messages = <<>>
  /\ pc = "idle" /\ cur = NoCur /\ timers = <<>> /\ chatUpdates = <<>>
  /\ messageInput = <<>> /\ isGenerating = FALSE
  /\ maMessages = <<>> /\ maPc = "idle" /\ maCur = NoCur
  /\ ops = 0 /\ origin = <<>> /\ calls = {} /\ opLog = <<>> /\ toasts = {}
  /\ ev = NoEv
  /\ fbInput = <<>> /\ fbFrags = 0 /\ fbOut = NoOut

\* the ChatInterface screen is mounted on a chat that is empty or missing
InitCI ==
  /\ InitCommon
  /\ screen = "CI"
  /\ userConsents \in ConsentSets
  /\ stored \in BOOLEAN
  /\ settings = DefaultSettings
  /\ currentChatId = NoChat

\* the MessagingApp screen is mounted, with or without a current chat
InitMA ==
  /\ InitCommon
  /\ screen = "MA"
  /\ userConsents = DefaultConsents
  /\ stored = FALSE
  /\ settings \in [aiConfigured : BOOLEAN, moodDetection : BOOLEAN]
  /\ currentChatId \in {NoChat, "chat-1"}

Init == InitCI \/ InitMA

(* --------------------------- ChatInterface ---------------------------- *)
\* useKV: the value a functional update receives is the last stored sequence
useKV_prev == messages

\* const currentMessages = prev || []
prevOrEmpty == IF stored THEN useKV_prev ELSE <<>>

\* the guard without its in-flight test
sendGuard_NoFlag(msg, sending) == trim(msg) = <<>>

\* if (!message.trim() || isSending) return
sendGuard(msg, sending) == trim(msg) = <<>> \/ sending

\* the mood test inverted
moodGate_Inverted(consents) == ~consents.moodDetection

\* userConsents.moodDetection ? aiService.detectMood(...) : Promise.resolve(default)
moodGate(consents) == consents.moodDetection

\* userConsents.locationServices ? aiService.getHyperlocalContext(...) : Promise.resolve(default)
locationGate(consents) == consents.locationServices

\* currentMessage.toLowerCase().includes('@sahaay')
isGroupMention(currentMessage) == includes(toLowerCase(currentMessage), K_sahaay)

SetOp(n, rec) == [opLog EXCEPT ![n] = rec]

\* the guard rejects: nothing but the invocation itself happens
CI_sendRejected ==
  /\ screen = "CI"
  /\ sendGuard(message, isSending)
  /\ ev' = IF isSending THEN "sendRejectedInFlight" ELSE "sendRejectedEmpty"
  /\ UNCHANGED <<screen, now, userConsents, settings, ciVars, maVars, fbVars,
                 ops, origin, calls, opLog, toasts>>

\* sendMessage up to its first await: the user echo succeeds
CI_sendEchoed ==
  /\ screen = "CI"
  /\ ~sendGuard(message, isSending)
  /\ ops < MaxOps
  /\ LET op             == ops + 1
         currentMessage == trim(message)
         updated        == appendUpdater(prevOrEmpty, userMessage(now, currentMessage))
     IN /\ messages' = updated
        /\ stored' = TRUE
        /\ origin' = IF Len(updated) > Len(prevOrEmpty)
                     THEN Append(origin, Origin(op, "user")) ELSE origin
        /\ message' = <<>>
        /\ isTyping' = TRUE
        /\ isSending' = TRUE
        /\ pc' = "awaitInit"
        /\ cur' = [NoCur EXCEPT !.op = op, !.currentMessage = currentMessage,
                                !.history = messages]
        /\ calls' = calls \cup
                    {SimpleCall(op, "initializeConfig", Len(updated), <<>>)}
        /\ ops' = op
        /\ opLog' = Append(opLog, OpRec("send", currentMessage, "awaiting"))
        /\ ev' = NoEv
  /\ UNCHANGED <<screen, now, userConsents, settings, timers, chatUpdates,
                 maVars, fbVars, toasts>>

\* the catch block of the user echo returning without setIsSending(false)
CI_sendEchoFails_KeepFlag ==
  /\ screen = "CI"
  /\ ~sendGuard(message, isSending)
  /\ ops < MaxOps
  /\ LET op == ops + 1 IN
        /\ toasts' = toasts \cup {[op |-> op, text |-> "storage: add user message"]}
        /\ isSending' = TRUE
        /\ ops' = op
        /\ opLog' = Append(opLog, OpRec("send", trim(message), "echoFailed"))
        /\ ev' = NoEv
  /\ UNCHANGED <<screen, now, userConsents, settings, message, isTyping,
                 messages, stored, pc, cur, timers, chatUpdates, maVars,
                 fbVars, origin, calls>>

\* sendMessage: setMessages throws for the user message
CI_sendEchoFails ==
  /\ screen = "CI"
  /\ ~sendGuard(message, isSending)
  /\ ops < MaxOps
  /\ LET op == ops + 1 IN
        /\ toasts' = toasts \cup {[op |-> op, text |-> "storage: add user message"]}
        /\ isSending' = FALSE
        /\ ops' = op
        /\ opLog' = Append(opLog, OpRec("send", trim(message), "echoFailed"))
        /\ ev' = NoEv
  /\ UNCHANGED <<screen, now, userConsents, settings, message, isTyping,
                 messages, stored, pc, cur, timers, chatUpdates, maVars,
                 fbVars, origin, calls>>

\* the catch block without the finally block after it
CI_catch_NoFinally(failedAt, ok) ==
  LET op      == cur.op
      updated == appendUpdater(prevOrEmpty, fallbackMessage(now, cur.currentMessage))
      grew    == ok /\ Len(updated) > Len(prevOrEmpty)
  IN /\ messages' = IF ok THEN updated ELSE messages
     /\ stored' = (stored \/ ok)
     /\ origin' = IF grew THEN Append(origin, Origin(op, "fallback")) ELSE origin
     /\ toasts' = toasts
                  \cup {[op |-> op, text |-> "Failed to get AI response. Using fallback response."]}
                  \cup (IF ok THEN {} ELSE {[op |-> op, text |-> "storage: add fallback message"]})
     /\ opLog' = SetOp(op, [opLog[op] EXCEPT
                              !.outcome = IF ok THEN "fallback" ELSE "fallbackStoreFailed",
                              !.failedAt = failedAt])
     /\ isTyping' = isTyping
     /\ isSending' = isSending
     /\ pc' = "idle"
     /\ cur' = NoCur
     /\ UNCHANGED <<screen, now, userConsents, settings, message, timers,
                    chatUpdates, maVars, fbVars, ops, calls>>
  /\ ev' = NoEv

\* catch (error) { fallbackMessage ... } finally { ... }
CI_catch(failedAt, ok) ==
  LET op      == cur.op
      updated == appendUpdater(prevOrEmpty, fallbackMessage(now, cur.currentMessage))
      grew    == ok /\ Len(updated) > Len(prevOrEmpty)
  IN /\ messages' = IF ok THEN updated ELSE messages
     /\ stored' = (stored \/ ok)
     /\ origin' = IF grew THEN Append(origin, Origin(op, "fallback")) ELSE origin
     /\ toasts' = toasts
                  \cup {[op |-> op, text |-> "Failed to get AI response. Using fallback response."]}
                  \cup (IF ok THEN {} ELSE {[op |-> op, text |-> "storage: add fallback message"]})
     /\ opLog' = SetOp(op, [opLog[op] EXCEPT
                              !.outcome = IF ok THEN "fallback" ELSE "fallbackStoreFailed",
                              !.failedAt = failedAt])
     /\ isTyping' = FALSE
     /\ isSending' = FALSE
     /\ pc' = "idle"
     /\ cur' = NoCur
     /\ UNCHANGED <<screen, now, userConsents, settings, message, timers,
                    chatUpdates, maVars, fbVars, ops, calls>>
  /\ ev' = NoEv

\* await aiService.initializeConfig() returns; the two enrichment calls are made
CI_initializeConfigResolves ==
  /\ screen = "CI" /\ pc = "awaitInit"
  /\ calls' = calls
       \cup (IF moodGate(userConsents)
             THEN {SimpleCall(cur.op, "detectMood", Len(messages), cur.currentMessage)}
             ELSE {})
       \cup (IF locationGate(userConsents)
             THEN {SimpleCall(cur.op, "getHyperlocalContext", Len(messages), cur.currentMessage)}
             ELSE {})
  /\ pc' = "awaitEnrich"
  /\ UNCHANGED <<screen, now, userConsents, settings, message, isTyping,
                 isSending, messages, stored, cur, timers, chatUpdates, maVars,
                 fbVars, ops, origin, opLog, toasts>>
  /\ ev' = NoEv

CI_initializeConfigThrows ==
  /\ screen = "CI" /\ pc = "awaitInit"
  /\ \E ok \in BOOLEAN : CI_catch("initializeConfig", ok)

\* Promise.all resolves; generateResponse is called
CI_enrichmentResolves ==
  /\ screen = "CI" /\ pc = "awaitEnrich"
  /\ \E m \in MoodResults :
       LET moodAnalysis    == IF moodGate(userConsents) THEN m ELSE DefaultMood
           locationContext == IF locationGate(userConsents)
                              THEN LocationResult ELSE DefaultLocation
       IN /\ cur' = [cur EXCEPT !.moodAnalysis = moodAnalysis,
                                !.locationContext = locationContext]
          /\ calls' = calls \cup
               {Call(cur.op, "generateResponse", Len(messages), cur.currentMessage,
                     moodAnalysis, locationContext, aiServiceMessages(cur.history),
                     isGroupMention(cur.currentMessage))}
          /\ opLog' = SetOp(cur.op, [opLog[cur.op] EXCEPT !.detected =
                          IF userConsents.moodDetection THEN m ELSE NotCalled])
  /\ pc' = "awaitGen"
  /\ UNCHANGED <<screen, now, userConsents, settings, message, isTyping,
                 isSending, messages, stored, timers, chatUpdates, maVars,
                 fbVars, ops, origin, toasts>>
  /\ ev' = NoEv

\* Promise.all rejects: one of the enrichment calls that were made throws
CI_enrichmentThrows ==
  /\ screen = "CI" /\ pc = "awaitEnrich"
  /\ moodGate(userConsents) \/ locationGate(userConsents)
  /\ \E ok \in BOOLEAN : CI_catch("enrichment", ok)

\* generateResponse returns: the AI message is appended, onChatUpdate is called
CI_generateResolves ==
  /\ screen = "CI" /\ pc = "awaitGen"
  /\ \E aiResponseContent \in Replies, ok \in BOOLEAN :
       LET op      == cur.op
           msg     == aiMessage(now, aiResponseContent, cur.moodAnalysis)
           updated == appendUpdater(prevOrEmpty, msg)
           grew    == ok /\ Len(updated) > Len(prevOrEmpty)
       IN /\ messages' = IF ok THEN updated ELSE messages
          /\ stored' = (stored \/ ok)
          /\ origin' = IF grew THEN Append(origin, Origin(op, "ai")) ELSE origin
          /\ chatUpdates' = IF ok
                            THEN Append(chatUpdates,
                                        [op |-> op, chatId |-> "chat-1",
                                         lastMessage |-> substring(msg.content, 0, PreviewLen)])
                            ELSE chatUpdates
          /\ toasts' = IF ok THEN toasts
                       ELSE toasts \cup {[op |-> op, text |-> "storage: add AI message"]}
          /\ opLog' = SetOp(op, [opLog[op] EXCEPT
                                   !.outcome = IF ok THEN "replied" ELSE "replyStoreFailed",
                                   !.mood = cur.moodAnalysis,
                                   !.reply = aiResponseContent])
  /\ isTyping' = FALSE
  /\ isSending' = FALSE
  /\ pc' = "idle"
  /\ cur' = NoCur
  /\ UNCHANGED <<screen, now, userConsents, settings, message, timers, maVars,
                 fbVars, ops, calls>>
  /\ ev' = NoEv

CI_generateThrows ==
  /\ screen = "CI" /\ pc = "awaitGen"
  /\ \E ok \in BOOLEAN : CI_catch("generateResponse", ok)

\* onChange={(e) => setMessage(e.target.value)}
CI_setMessage ==
  /\ screen = "CI"
  /\ \E text \in Texts : message' = text /\ text # message
  /\ UNCHANGED <<screen, now, userConsents, settings, isTyping, isSending,
                 messages, stored, pc, cur, timers, chatUpdates, maVars, fbVars,
                 histVars>>
  /\ ev' = NoEv

\* processFileUpload: no file, or a file that is not an image
CI_processFileUploadIgnored ==
  /\ screen = "CI"
  /\ \E file \in Files :
       /\ ~startsWith(file.type, Mime_imagePrefix)
       /\ ev' = NoEv
  /\ UNCHANGED <<screen, now, userConsents, settings, ciVars, maVars, fbVars,
                 ops, origin, calls, opLog, toasts>>

\* processFileUpload -> processImageUpload, all of it: it has no await
CI_processImageUpload ==
  /\ screen = "CI"
  /\ ops < MaxOps
  /\ \E file \in Files, okImage \in BOOLEAN, okError \in BOOLEAN :
       /\ startsWith(file.type, Mime_imagePrefix)
       /\ LET op       == ops + 1
              withImg  == appendUpdater(prevOrEmpty, imageMessage(now, file))
              grewImg  == Len(withImg) > Len(prevOrEmpty)
              orgImg   == IF grewImg THEN Append(origin, Origin(op, "image")) ELSE origin
              failure  == IF file.size > MaxFileSize THEN TooLargeError
                          ELSE IF ~startsWith(file.type, Mime_imagePrefix)
                          THEN InvalidTypeError ELSE <<>>
              withErr  == appendUpdater(withImg, errorResponse(now, failure))
              grewErr  == Len(withErr) > Len(withImg)
          IN /\ ops' = op
             /\ ev' = NoEv
             /\ IF ~okImage
                THEN \* setMessages throws for the image message: toast, return
                     /\ okError
                     /\ toasts' = toasts \cup {[op |-> op, text |-> "storage: add image message"]}
                     /\ opLog' = Append(opLog, OpRec("upload", file, "imageStoreFailed"))
                     /\ UNCHANGED <<messages, stored, origin, isTyping, timers>>
                ELSE IF failure # <<>>
                THEN \* validation throws: the catch block
                     /\ isTyping' = FALSE
                     /\ toasts' = toasts \cup {[op |-> op, text |-> "validation"]}
                     /\ messages' = IF okError THEN withErr ELSE withImg
                     /\ stored' = TRUE
                     /\ origin' = IF okError /\ grewErr
                                  THEN Append(orgImg, Origin(op, "error")) ELSE orgImg
                     /\ opLog' = Append(opLog, OpRec("upload", file,
                                   IF okError THEN "rejected" ELSE "errorStoreFailed"))
                     /\ UNCHANGED timers
                ELSE \* setTimeout(..., 2000)
                     /\ okError
                     /\ isTyping' = TRUE
                     /\ messages' = withImg
                     /\ stored' = TRUE
                     /\ origin' = orgImg
                     /\ timers' = Append(timers, op)
                     /\ opLog' = Append(opLog, OpRec("upload", file, "timerPending"))
                     /\ UNCHANGED toasts
  /\ UNCHANGED <<screen, now, userConsents, settings, message, isSending, pc,
                 cur, chatUpdates, maVars, fbVars, calls>>

\* the setTimeout callback of processImageUpload
CI_billTimer ==
  /\ screen = "CI"
  /\ timers # <<>>
  /\ \E ok \in BOOLEAN :
       LET op      == Head(timers)
           updated == appendUpdater(prevOrEmpty, billResponse(now))
           grew    == ok /\ Len(updated) > Len(prevOrEmpty)
       IN /\ messages' = IF ok THEN updated ELSE messages
          /\ stored' = (stored \/ ok)
          /\ origin' = IF grew THEN Append(origin, Origin(op, "bill")) ELSE origin
          /\ toasts' = IF ok THEN toasts
                       ELSE toasts \cup {[op |-> op, text |-> "storage: add bill response"]}
          /\ opLog' = SetOp(op, [opLog[op] EXCEPT
                                   !.outcome = IF ok THEN "billed" ELSE "billStoreFailed"])
  /\ isTyping' = FALSE
  /\ timers' = Tail(timers)
  /\ UNCHANGED <<screen, now, userConsents, settings, message, isSending, pc,
                 cur, chatUpdates, maVars, fbVars, ops, calls>>
  /\ ev' = NoEv

\* the wall clock advances between two segments
Tick ==
  /\ screen \in {"CI", "MA"}
  /\ now < MaxClock
  /\ now' = now + 1
  /\ UNCHANGED <<screen, userConsents, settings, ciVars, maVars, fbVars, histVars>>
  /\ ev' = NoEv

(* ---------------------------- MessagingApp ---------------------------- *)
\* the store's addMessage: the list with the new message at its end
addMessage(list, m) == Append(list, m)

\* the store's addMessage: the message it records for {content, sender, chatId, metadata}
storeMessage(t, content, sender, chatId) ==
  [id |-> msgId(t), content |-> content, sender |-> sender, timestamp |-> t,
   type |-> "text", chatId |-> chatId]

\* metadata of the response object generateResponse returns
ResponseMetadata == [confidence |-> 90]

\* the input and the button with their disabled prop ignored
inputDisabled_Never(generating) == FALSE

\* <Input disabled={isGenerating}> and <Button disabled={... || isGenerating}>
inputDisabled(generating) == generating

\* if (!messageInput.trim() || !currentChatId) return
maSendGuard(input, chatId) == trim(input) = <<>> \/ chatId = NoChat

\* the input and the send button exist only while a chat is current
MA_canInvoke == currentChatId # NoChat /\ ~inputDisabled(isGenerating)

\* handleStartChat -> handleCreateChat: the first chat is created and selected
MA_handleStartChat ==
  /\ screen = "MA"
  /\ currentChatId = NoChat
  /\ currentChatId' = "chat-1"
  /\ UNCHANGED <<screen, now, userConsents, settings, ciVars, messageInput,
                 isGenerating, maMessages, maPc, maCur, fbVars, histVars>>
  /\ ev' = NoEv

\* onChange={(e) => setMessageInput(e.target.value)}
MA_setMessageInput ==
  /\ screen = "MA"
  /\ MA_canInvoke
  /\ \E text \in Texts : messageInput' = text /\ text # messageInput
  /\ UNCHANGED <<screen, now, userConsents, settings, ciVars, isGenerating,
                 currentChatId, maMessages, maPc, maCur, fbVars, histVars>>
  /\ ev' = NoEv

MA_sendRejected ==
  /\ screen = "MA"
  /\ MA_canInvoke
  /\ maSendGuard(messageInput, currentChatId)
  /\ ev' = "sendRejectedEmpty"
  /\ UNCHANGED <<screen, now, userConsents, settings, ciVars, maVars, fbVars,
                 ops, origin, calls, opLog, toasts>>

\* handleSendMessage up to its await (or to its end when no AI is configured)
MA_handleSendMessage ==
  /\ screen = "MA"
  /\ MA_canInvoke
  /\ ~maSendGuard(messageInput, currentChatId)
  /\ ops < MaxOps
  /\ \E ok \in BOOLEAN :
       LET op      == ops + 1
           text    == trim(messageInput)
           updated == addMessage(maMessages, storeMessage(now, text, "user", currentChatId))
       IN /\ ops' = op
          /\ messageInput' = <<>>
          /\ ev' = NoEv
          /\ IF ~ok
             THEN \* addMessage throws: the handler ends with that exception
                  /\ opLog' = Append(opLog, OpRec("maSend", text, "echoFailed"))
                  /\ UNCHANGED <<maMessages, origin, isGenerating, maPc, maCur, calls>>
             ELSE /\ maMessages' = updated
                  /\ origin' = Append(origin, Origin(op, "user"))
                  /\ IF settings.aiConfigured
                     THEN /\ isGenerating' = TRUE
                          /\ maPc' = "awaitGen"
                          /\ maCur' = [NoCur EXCEPT !.op = op, !.currentMessage = text,
                                                    !.history = maMessages]
                          /\ calls' = calls \cup
                               {Call(op, "generateResponse", Len(updated), text,
                                     [DefaultMood EXCEPT !.mood =
                                        IF settings.moodDetection THEN "auto" ELSE "undefined"],
                                     DefaultLocation, conversationHistory(maMessages),
                                     FALSE)}
                          /\ opLog' = Append(opLog, OpRec("maSend", text, "awaiting"))
                     ELSE /\ opLog' = Append(opLog, OpRec("maSend", text, "noAI"))
                          /\ UNCHANGED <<isGenerating, maPc, maCur, calls>>
  /\ UNCHANGED <<screen, now, userConsents, settings, ciVars, currentChatId,
                 fbVars, toasts>>

\* generateResponse returns: addMessage of the AI message (a throw goes to the catch)
MA_generateResolves ==
  /\ screen = "MA" /\ maPc = "awaitGen"
  /\ \E content \in Replies, ok \in BOOLEAN :
       LET op  == maCur.op
           msg == storeMessage(now, content, "ai", currentChatId)
                    @@ [metadata |-> ResponseMetadata]
       IN /\ maMessages' = IF ok THEN addMessage(maMessages, msg) ELSE maMessages
          /\ origin' = IF ok THEN Append(origin, Origin(op, "ai")) ELSE origin
          /\ toasts' = IF ok THEN toasts
                       ELSE toasts \cup {[op |-> op, text |-> "Failed to generate AI response"]}
          /\ opLog' = SetOp(op, [opLog[op] EXCEPT
                                   !.outcome = IF ok THEN "replied" ELSE "replyStoreFailed",
                                   !.reply = content])
  /\ isGenerating' = FALSE
  /\ maPc' = "idle"
  /\ maCur' = NoCur
  /\ UNCHANGED <<screen, now, userConsents, settings, ciVars, messageInput,
                 currentChatId, fbVars, ops, calls>>
  /\ ev' = NoEv

\* generateResponse throws: catch { toast.error } finally { setIsGenerating(false) }
MA_generateThrows ==
  /\ screen = "MA" /\ maPc = "awaitGen"
  /\ toasts' = toasts \cup {[op |-> maCur.op, text |-> "Failed to generate AI response"]}
  /\ opLog' = SetOp(maCur.op, [opLog[maCur.op] EXCEPT
                                 !.outcome = "failed", !.failedAt = "generateResponse"])
  /\ isGenerating' = FALSE
  /\ maPc' = "idle"
  /\ maCur' = NoCur
  /\ UNCHANGED <<screen, now, userConsents, settings, ciVars, messageInput,
                 currentChatId, maMessages, fbVars, ops, origin, calls>>
  /\ ev' = NoEv

(* ------------------- suggestion selector on its own ------------------- *)
Fragments ==
  {<<"r","o","u">>, <<"t","e">>, <<"T","r","a","f","f","i","c">>,
   <<"d","i","r","e","c","t","i","o","n">>, <<"b","i","l","l">>,
   <<"P","A","Y","M","E","N","T">>, <<"e","l","e","c","t","r","i","c","i","t","y">>,
   <<"w","a">>, <<"t","e","r">>, <<"s","u","m","m","a","r","y">>,
   <<"G","r","o","u","p">>, <<"@","S","a","h","a","a","y">>,
   <<"w","e","a","t","h","e","r">>, <<"t","e","m","p","e","r","a","t","u","r","e">>,
   <<"t","r","a","n","s","l","a","t","e">>, <<"M","e","a","n","i","n","g">>,
   <<"R","O","U","T","E">>, <<" ">>, <<"x">>}

InitSuggest ==
  /\ InitCommon
  /\ screen = "FB"
  /\ userConsents = DefaultConsents
  /\ stored = FALSE
  /\ settings = DefaultSettings
  /\ currentChatId = NoChat

\* the text handed to getFallbackSuggestion grows by a fragment
FB_type ==
  /\ screen = "FB"
  /\ fbFrags < MaxFrags
  /\ \E f \in Fragments : fbInput' = fbInput \o f
  /\ fbFrags' = fbFrags + 1
  /\ fbOut' = NoOut
  /\ UNCHANGED <<screen, now, userConsents, settings, ciVars, maVars, histVars>>
  /\ ev' = NoEv

\* getFallbackSuggestion(fbInput)
FB_apply ==
  /\ screen = "FB"
  /\ ~fbOut.done
  /\ fbOut' = [input |-> fbInput, out |-> getFallbackSuggestion(fbInput), done |-> TRUE]
  /\ UNCHANGED <<screen, now, userConsents, settings, ciVars, maVars, histVars,
                 fbInput, fbFrags>>
  /\ ev' = NoEv

(* --------------------------- specifications --------------------------- *)
Next ==
  \/ CI_setMessage
  \/ CI_sendRejected
  \/ CI_sendEchoed
  \/ CI_sendEchoFails
  \/ CI_initializeConfigResolves
  \/ CI_initializeConfigThrows
  \/ CI_enrichmentResolves
  \/ CI_enrichmentThrows
  \/ CI_generateResolves
  \/ CI_generateThrows
  \/ CI_processFileUploadIgnored
  \/ CI_processImageUpload
  \/ CI_billTimer
  \/ MA_handleStartChat
  \/ MA_setMessageInput
  \/ MA_sendRejected
  \/ MA_handleSendMessage
  \/ MA_generateResolves
  \/ MA_generateThrows

\* No handler branches on the clock: Spec holds it still (every segment of a
\* run reads the same value), SpecClock lets it advance between segments.
Spec == Init /\ [][Next]_vars

\* SpecClock is the ChatInterface screen alone, under one consent setting.
InitClock ==
  /\ InitCI
  /\ userConsents = [moodDetection |-> TRUE, locationServices |-> FALSE]
  /\ ~stored

NextClock ==
  \/ CI_setMessage
  \/ CI_sendRejected
  \/ CI_sendEchoed
  \/ CI_sendEchoFails
  \/ CI_initializeConfigResolves
  \/ CI_initializeConfigThrows
  \/ CI_enrichmentResolves
  \/ CI_enrichmentThrows
  \/ CI_generateResolves
  \/ CI_generateThrows
  \/ CI_processFileUploadIgnored
  \/ CI_processImageUpload
  \/ CI_billTimer
  \/ Tick

SpecClock == InitClock /\ [][NextClock]_vars

NextSuggest == FB_type \/ FB_apply

SpecSuggest == InitSuggest /\ [][NextSuggest]_vars

(* ------------------------------ properties ---------------------------- *)
\* the message list of the mounted screen; origin runs parallel to it
Msgs == IF screen = "MA" THEN maMessages ELSE messages

OriginMatches == Len(origin) = Len(Msgs)

Ops == 1..Len(opLog)
SendOpsOf(log) == {n \in 1..Len(log) : log[n].kind \in {"send", "maSend"}}
CISends == {n \in Ops : opLog[n].kind = "send"}
MASends == {n \in Ops : opLog[n].kind = "maSend"}

\* positions of the messages operation n appended
MsgsOf(n) == {i \in 1..Len(origin) : origin[i].op = n}
UserMsgsOf(n) == {i \in MsgsOf(n) : Msgs[i].sender = "user"}
AIMsgsOf(n) == {i \in MsgsOf(n) : Msgs[i].sender = "ai"}
CallsOf(n) == {c \in calls : c.op = n}
GenCalls(cs) == {c \in cs : c.fn = "generateResponse"}

IsUserEcho(i, n) ==
  /\ Msgs[i].sender = "user"
  /\ Msgs[i].type = "text"
  /\ Msgs[i].content = opLog[n].input

\* exactly one user echo of send n is stored, and it was stored before every AI call of n
EchoedOnceBeforeCalls(n) ==
  /\ Cardinality(UserMsgsOf(n)) = 1
  /\ \A i \in UserMsgsOf(n) :
       /\ IsUserEcho(i, n)
       /\ \A c \in CallsOf(n) : i <= c.storeLen

\* C1 as stated: every send that passes the guard echoes exactly one user
\* Message (sender user, type text, content the trimmed input), before any AI call.
C1_Original ==
  \A n \in SendOpsOf(opLog) : opLog[n].input # <<>> /\ EchoedOnceBeforeCalls(n)

\* C1 amended: every send that passes the guard has a non-empty trimmed input;
\* unless the store append of the user message fails, exactly one user Message
\* with that content is appended, before any AI call of the send; when the
\* append fails nothing is appended for the send and no AI call is made.
C1_EchoBeforeAI ==
  /\ OriginMatches
  /\ \A n \in SendOpsOf(opLog) :
       /\ opLog[n].input # <<>>
       /\ IF opLog[n].outcome = "echoFailed"
          THEN MsgsOf(n) = {} /\ CallsOf(n) = {}
          ELSE EchoedOnceBeforeCalls(n)

C1_Witness ==
  /\ \E n \in CISends : GenCalls(CallsOf(n)) # {} /\ Cardinality(UserMsgsOf(n)) = 1
  /\ \E n \in CISends : opLog[n].outcome = "echoFailed"

C1_WitnessMA ==
  \E n \in MASends : GenCalls(CallsOf(n)) # {} /\ Cardinality(UserMsgsOf(n)) = 1

InFlight == pc # "idle" \/ maPc # "idle"
InFlightOp == IF pc # "idle" THEN cur.op ELSE maCur.op

IsFallback(m) ==
  /\ m.sender = "ai"
  /\ m.type = "text"
  /\ "metadata" \in DOMAIN m
  /\ m.metadata.confidence = FallbackConfidence
  /\ m.metadata.disclaimer # ""

C3_WitnessMA ==
  \E n \in MASends : opLog[n].failedAt = "generateResponse"

EchoFailed(n) == opLog[n].kind = "send" /\ opLog[n].outcome = "echoFailed"

\* C4: a ChatInterface send whose user-message append throws makes no AI call,
\* reports the storage error, stores nothing, and leaves isSending false: the
\* flag is true only while an accepted send is suspended.
C4_EchoFailureAborts ==
  /\ \A n \in Ops :
       EchoFailed(n) =>
         /\ CallsOf(n) = {}
         /\ MsgsOf(n) = {}
         /\ [op |-> n, text |-> "storage: add user message"] \in toasts
  /\ isSending <=> pc # "idle"
  /\ pc # "idle" => cur.op \in Ops /\ opLog[cur.op].outcome = "awaiting"

\* a send aborted by the store, and a later send that was accepted and echoed
C4_Witness ==
  \E n \in Ops, k \in Ops :
    /\ EchoFailed(n)
    /\ n < k
    /\ opLog[k].kind = "send"
    /\ UserMsgsOf(k) # {}
    /\ ~isSending

GenSucceeded(n) == opLog[n].outcome \in {"replied", "replyStoreFailed"}

ExpectedConfidence(n) ==
  IF userConsents.moodDetection THEN opLog[n].detected.confidence ELSE 0

IsReplyOf(m, n) ==
  /\ m.sender = "ai"
  /\ m.type = "text"
  /\ m.content = opLog[n].reply
  /\ "metadata" \in DOMAIN m
  /\ m.metadata.confidence = ExpectedConfidence(n)

\* C5 as stated: a ChatInterface send whose generation call returns gets exactly
\* one AI Message: type text, the returned text, the confidence of the mood
\* signal used (detectMood's under consent, else 0); and no fallback.
C5_Original ==
  \A n \in CISends :
    GenSucceeded(n) =>
      /\ Cardinality(AIMsgsOf(n)) = 1
      /\ \A i \in AIMsgsOf(n) : IsReplyOf(Msgs[i], n)

\* C5 amended: the same, unless the store append of the AI message fails; then
\* no AI message (and no fallback) is stored for the send and the storage error
\* is reported.
C5_Reply ==
  \A n \in CISends :
    /\ opLog[n].outcome = "replied" =>
         /\ Cardinality(AIMsgsOf(n)) = 1
         /\ \A i \in AIMsgsOf(n) :
              IsReplyOf(Msgs[i], n) /\ origin[i].kind = "ai"
         /\ userConsents.moodDetection => opLog[n].detected \in MoodResults
    /\ opLog[n].outcome = "replyStoreFailed" =>
         /\ AIMsgsOf(n) = {}
         /\ [op |-> n, text |-> "storage: add AI message"] \in toasts

\* replies stored under consent and without it cannot both be reached in one
\* run; this one is under consent, with the confidence detectMood returned
C5_Witness ==
  \E n \in CISends :
    /\ opLog[n].outcome = "replied"
    /\ userConsents.moodDetection
    /\ \E i \in AIMsgsOf(n) : Msgs[i].metadata.confidence = 80

C5_WitnessNoConsent ==
  \E n \in CISends :
    /\ opLog[n].outcome = "replied"
    /\ ~userConsents.moodDetection
    /\ \E i \in AIMsgsOf(n) : Msgs[i].metadata.confidence = 0

IsPrefix(a, b) == Len(a) <= Len(b) /\ SubSeq(b, 1, Len(a)) = a

\* C6: every step leaves the stored list a prefix of the list after it: nothing
\* stored is lost, overwritten, reordered, mutated or deleted, under any
\* interleaving of sends, uploads and the bill-response timer.
C6_AppendOnly ==
  [][IsPrefix(messages, messages') /\ IsPrefix(maMessages, maMessages')]_vars

\* the bill response of an upload arrived while a send was awaiting its reply
C6_Witness ==
  /\ pc = "awaitGen"
  /\ \E i \in 1..Len(origin), j \in 1..Len(origin) :
       /\ j < i
       /\ origin[i].kind = "bill"
       /\ origin[j].op = cur.op
       /\ origin[j].kind = "user"

\* C7 as stated, its first half: isTyping is true in every state in which a
\* ChatInterface send is awaiting its reply.
C7_Original == pc # "idle" => isTyping

\* the second half of C7: the step that returns the send to Idle leaves isTyping false
C7_ClearedOnReturn == [][pc # "idle" /\ pc' = "idle" => ~isTyping']_vars

Abs(x) == IF x < 0 THEN -x ELSE x

\* the two messages one run of processImageUpload creates: the image and its error
SameRun(i, j) ==
  /\ origin[i].op = origin[j].op
  /\ {origin[i].kind, origin[j].kind} = {"image", "error"}

\* C8 as stated: the ids of the messages of a chat are pairwise different,
\* whatever the clock returns.
C8_Original ==
  \A i \in 1..Len(messages), j \in 1..Len(messages) :
    i < j => messages[i].id # messages[j].id

\* C8 amended: a user or image message created at clock value t has id msg-t,
\* an AI, fallback, bill or error message msg-(t+1); two messages of a chat have
\* different ids when they were created at clock values at least 2 apart, or
\* by the same run of processImageUpload (the clock not going backwards).
C8_IdsApart ==
  screen = "CI" =>
    /\ OriginMatches
    /\ \A i \in 1..Len(messages) :
         messages[i].id =
           <<"msg-", origin[i].t + (IF origin[i].kind \in {"user", "image"} THEN 0 ELSE 1)>>
    /\ \A i \in 1..Len(messages), j \in 1..Len(messages) :
         (i < j /\ (SameRun(i, j) \/ Abs(origin[i].t - origin[j].t) >= 2))
           => messages[i].id # messages[j].id

\* a reply-kind message, then a user-kind message created 2 clock values later,
\* and the two messages of one rejected upload
C8_Witness ==
  /\ screen = "CI"
  /\ \E i \in 1..Len(messages), j \in 1..Len(messages) :
       /\ i < j
       /\ origin[i].kind \in {"ai", "fallback", "bill", "error"}
       /\ origin[j].kind \in {"user", "image"}
       /\ origin[j].t - origin[i].t >= 2
  /\ \E i \in 1..Len(messages), j \in 1..Len(messages) : i < j /\ SameRun(i, j)

\* a keyword occurs in s whatever the case of the letters of s
OccursAnyCase(s, k) ==
  \E i \in 1..Len(s) :
    /\ i + Len(k) - 1 <= Len(s)
    /\ \A p \in 1..Len(k) : toLowerChar(s[i + p - 1]) = k[p]

Categories ==
  << [keys |-> {K_route, K_traffic, K_direction}, out |-> SuggestRoute],
     [keys |-> {K_bill, K_payment, K_electricity, K_water}, out |-> SuggestBill],
     [keys |-> {K_summary, K_group, K_sahaay}, out |-> SuggestGroup],
     [keys |-> {K_weather, K_temperature}, out |-> SuggestWeather],
     [keys |-> {K_translate, K_meaning}, out |-> SuggestTranslate] >>

Matches(s, c) == \E k \in Categories[c].keys : OccursAnyCase(s, k)

SixSuggestions ==
  {SuggestRoute, SuggestBill, SuggestGroup, SuggestWeather, SuggestTranslate,
   SuggestDefault}

\* C9: the result of getFallbackSuggestion is one of the six suggestions: that
\* of the first category, in the order route, bill, group, weather, translate,
\* one of whose keywords occurs in the input in any case, else the default; an
\* input with a route keyword gets the route suggestion whatever else it holds.
C9_FirstMatchWins ==
  fbOut.done =>
    /\ fbOut.out \in SixSuggestions
    /\ \A c \in 1..Len(Categories) :
         (Matches(fbOut.input, c) /\ \A b \in 1..(c - 1) : ~Matches(fbOut.input, b))
           => fbOut.out = Categories[c].out
    /\ (\A c \in 1..Len(Categories) : ~Matches(fbOut.input, c))
           => fbOut.out = SuggestDefault
    /\ Matches(fbOut.input, 1) => fbOut.out = SuggestRoute

\* an input in capitals with a billing keyword before its route keyword
C9_Witness ==
  /\ fbOut.done
  /\ fbOut.out = SuggestRoute
  /\ Matches(fbOut.input, 2)
  /\ ~includes(fbOut.input, K_route)
  /\ OccursAnyCase(fbOut.input, K_route)

\* C10: in ChatInterface detectMood is called only under consent moodDetection
\* and getHyperlocalContext only under consent locationServices; without the
\* consent generateResponse is handed the default signal (mood neutral with
\* confidence 0, empty area); and no step changes userConsents.
C10_ConsentGating ==
  /\ [](screen = "CI" =>
         \A c \in calls :
           /\ c.fn = "detectMood" => userConsents.moodDetection
           /\ c.fn = "getHyperlocalContext" => userConsents.locationServices
           /\ c.fn = "generateResponse" =>
                /\ ~userConsents.moodDetection =>
                     (c.mood.mood = "neutral" /\ c.mood.confidence = 0)
                /\ ~userConsents.locationServices => c.location.area = ""
                /\ userConsents.moodDetection => c.mood \in MoodResults
                /\ userConsents.locationServices => c.location = LocationResult)
  /\ [][userConsents' = userConsents]_vars

\* a send that reached generateResponse without the mood consent and with the
\* location consent
C10_Witness ==
  /\ screen = "CI"
  /\ ~userConsents.moodDetection
  /\ userConsents.locationServices
  /\ \E c \in GenCalls(calls) :
       /\ c.mood = DefaultMood
       /\ c.location = LocationResult
       /\ \E d \in calls : d.op = c.op /\ d.fn = "getHyperlocalContext"

(* ---------------------------- image uploads ---------------------------- *)
Uploads == {n \in Ops : opLog[n].kind = "upload"}
TooLarge(n) == opLog[n].kind = "upload" /\ opLog[n].input.size > MaxFileSize

IsValidationError(m) ==
  /\ m.sender = "ai"
  /\ "metadata" \in DOMAIN m
  /\ m.metadata.confidence = ErrorConfidence
  /\ m.content = ErrorPrefix \o TooLargeError

IsBill(m) ==
  /\ m.sender = "ai"
  /\ "metadata" \in DOMAIN m
  /\ "actionItems" \in DOMAIN m.metadata

\* no bill message of upload n is stored and none is scheduled
NoBillFor(n) ==
  /\ \A i \in MsgsOf(n) : ~IsBill(Msgs[i])
  /\ \A k \in 1..Len(timers) : timers[k] # n

\* the step just taken ran processImageUpload on a file over the size limit
RanTooLargeUpload ==
  /\ Len(opLog') = Len(opLog) + 1
  /\ opLog'[Len(opLog')].kind = "upload"
  /\ opLog'[Len(opLog')].input.size > MaxFileSize

\* C11 as stated: an upload of an image over 10 MiB appends one error Message
\* (sender ai, confidence 0, describing the failure), never gets a bill
\* message, and leaves the typing indicator cleared.
C11_Original ==
  /\ [](\A n \in Ops :
          TooLarge(n) =>
            /\ Cardinality(AIMsgsOf(n)) = 1
            /\ \A i \in AIMsgsOf(n) : IsValidationError(Msgs[i])
            /\ NoBillFor(n))
  /\ [][RanTooLargeUpload => isTyping' = FALSE]_vars

\* C11 amended: an upload of an image over 10 MiB never gets a bill message,
\* now or later. When both store appends succeed it stores the image message
\* and then exactly one error Message (sender ai, confidence 0, the size
\* error as content) and the typing indicator is false after it; when the
\* append of the error message throws only the image message is stored and
\* the indicator is false; when the append of the image message throws
\* nothing is stored, no validation runs and the indicator is left as it was.
C11_TooLargeRejected ==
  /\ [](\A n \in Ops :
          TooLarge(n) =>
            /\ NoBillFor(n)
            /\ opLog[n].outcome \in {"rejected", "errorStoreFailed", "imageStoreFailed"}
            /\ opLog[n].outcome = "rejected" =>
                 /\ Cardinality(UserMsgsOf(n)) = 1
                 /\ Cardinality(AIMsgsOf(n)) = 1
                 /\ \A i \in AIMsgsOf(n) :
                      /\ IsValidationError(Msgs[i])
                      /\ \A j \in UserMsgsOf(n) : j < i
            /\ opLog[n].outcome = "errorStoreFailed" =>
                 Cardinality(UserMsgsOf(n)) = 1 /\ AIMsgsOf(n) = {}
            /\ opLog[n].outcome = "imageStoreFailed" => MsgsOf(n) = {})
  /\ [][RanTooLargeUpload =>
          IF opLog'[Len(opLog')].outcome = "imageStoreFailed"
          THEN isTyping' = isTyping /\ messages' = messages
          ELSE isTyping' = FALSE]_vars

\* an accepted upload got its bill, and a later upload over the limit got its
\* error message and left the indicator cleared
C11_Witness ==
  /\ \E n \in Uploads : opLog[n].outcome = "billed"
  /\ \E n \in Uploads :
       /\ TooLarge(n)
       /\ opLog[n].outcome = "rejected"
       /\ \E i \in AIMsgsOf(n) : IsValidationError(Msgs[i])
  /\ ~isTyping

(* ----------------------------- onChatUpdate ---------------------------- *)
\* positions in chatUpdates of the invocations made by operation n
UpdatesOf(n) == {k \in 1..Len(chatUpdates) : chatUpdates[k].op = n}

\* the preview is the reply cut to its first PreviewLen characters
IsPreviewOf(p, reply) ==
  /\ IsPrefix(p, reply)
  /\ Len(p) <= PreviewLen
  /\ Len(p) = Len(reply) \/ Len(p) = PreviewLen

UpdatedOnce(n) ==
  /\ Cardinality(UpdatesOf(n)) = 1
  /\ \A k \in UpdatesOf(n) :
       /\ chatUpdates[k].chatId = "chat-1"
       /\ IsPreviewOf(chatUpdates[k].lastMessage, opLog[n].reply)

\* a guard-rejected send invokes nothing
RejectedSendsSilent == [][ev' # NoEv => chatUpdates' = chatUpdates]_vars

\* C12 as stated: onChatUpdate is invoked exactly once for each ChatInterface
\* send whose generation call succeeds, with the chat id and the first 100
\* characters of the reply, and never for any other send, a rejected send or
\* an image upload.
C12_Original ==
  /\ [](\A n \in Ops :
          IF opLog[n].kind = "send" /\ GenSucceeded(n)
          THEN UpdatedOnce(n) ELSE UpdatesOf(n) = {})
  /\ RejectedSendsSilent

\* C12 amended: onChatUpdate is invoked exactly once, with the chat id and the
\* first 100 characters of the reply (never more than 100), for each
\* ChatInterface send whose generation call succeeds and whose AI message the
\* store accepts; it is not invoked when the append of the AI message throws,
\* nor for a send on the fallback path, a send still awaiting, a send the
\* guard rejected, or an image upload.
C12_UpdateOnReply ==
  /\ [](\A n \in Ops :
          IF opLog[n].kind = "send" /\ opLog[n].outcome = "replied"
          THEN UpdatedOnce(n) ELSE UpdatesOf(n) = {})
  /\ [](\A k \in 1..Len(chatUpdates) : chatUpdates[k].op \in Ops)
  /\ RejectedSendsSilent

\* a reply longer than the preview was cut to 100 characters, and a send that
\* fell back invoked nothing
C12_Witness ==
  /\ \E n \in CISends :
       /\ opLog[n].outcome = "replied"
       /\ Len(opLog[n].reply) > PreviewLen
       /\ \E k \in UpdatesOf(n) : Len(chatUpdates[k].lastMessage) = PreviewLen
  /\ \E n \in CISends : opLog[n].outcome = "fallback" /\ UpdatesOf(n) = {}

(* ------------------------- store round trip --------------------------- *)
\* how many appends operation n has performed so far (an append that threw
\* was not performed)
AppendsOf(n) ==
  CASE opLog[n].outcome \in {"echoFailed", "imageStoreFailed"} -> 0
    [] opLog[n].outcome \in {"awaiting", "replyStoreFailed", "fallbackStoreFailed",
                             "errorStoreFailed", "timerPending", "billStoreFailed"} -> 1
    [] opLog[n].outcome \in {"replied", "fallback", "rejected", "billed"} -> 2
    [] OTHER -> 0

RECURSIVE AppendsUpTo(_)
AppendsUpTo(n) == IF n = 0 THEN 0 ELSE AppendsUpTo(n - 1) + AppendsOf(n)

\* the message that was handed to the i-th append performed
Appended(i) ==
  LET o == origin[i]
      r == opLog[o.op]
  IN CASE o.kind = "user"     -> userMessage(o.t, r.input)
       [] o.kind = "ai"       -> aiMessage(o.t, r.reply, r.mood)
       [] o.kind = "fallback" -> fallbackMessage(o.t, r.input)
       [] o.kind = "image"    -> imageMessage(o.t, r.input)
       [] o.kind = "error"    -> errorResponse(o.t, TooLargeError)
       [] o.kind = "bill"     -> billResponse(o.t)

MessageFields == {"id", "content", "sender", "timestamp", "type"}

\* C13: on the ChatInterface screen, starting from a missing or an empty chat,
\* the stored list read back is exactly the messages appended so far through
\* setMessages(prev => [...(prev || []), m]): as many entries as appends
\* performed, in the order of the appends, each entry equal field by field
\* (id, content, sender, timestamp, type, metadata when present) to the
\* message appended, nothing twice and nothing else.
C13_RoundTrip ==
  screen = "CI" =>
    /\ Len(messages) = AppendsUpTo(Len(opLog))
    /\ Len(origin) = Len(messages)
    /\ \A i \in 1..Len(messages) :
         /\ messages[i] = Appended(i)
         /\ MessageFields \subseteq DOMAIN messages[i]
         /\ DOMAIN messages[i] \subseteq MessageFields \cup {"metadata"}
    /\ \A n \in Ops : \A i \in UserMsgsOf(n), j \in AIMsgsOf(n) : i < j

\* four appends, by a send that got its reply and an upload over the limit,
\* are read back: a text echo, an AI reply, an image message and an error
C13_Witness ==
  /\ screen = "CI"
  /\ Len(messages) = 4
  /\ AppendsUpTo(Len(opLog)) = 4
  /\ {origin[i].kind : i \in 1..4} = {"user", "ai", "image", "error"}
  /\ \E i \in 1..4 : "metadata" \notin DOMAIN messages[i]
  /\ \E i \in 1..4 : "metadata" \in DOMAIN messages[i]

(* ------------------------- runs to completion -------------------------- *)
\* each await of a send settles: the collaborator call returns or throws
Fairness ==
  /\ WF_vars(CI_initializeConfigResolves \/ CI_initializeConfigThrows)
  /\ WF_vars(CI_enrichmentResolves \/ CI_enrichmentThrows)
  /\ WF_vars(CI_generateResolves \/ CI_generateThrows)
  /\ WF_vars(MA_generateResolves \/ MA_generateThrows)

SpecLive == Init /\ [][Next]_vars /\ Fairness

\* C14: provided every collaborator call returns or throws, a ChatInterface
\* send suspended at any of its awaits leads to a state where it has returned
\* (idle) with isSending false and isTyping false, whichever path it takes;
\* and isSending is never true while no send is suspended, so the in-flight
\* flag cannot block a later send forever.
C14_RunsToCompletion ==
  /\ (pc # "idle") ~> (pc = "idle" /\ ~isSending /\ ~isTyping)
  /\ [](pc = "idle" => ~isSending)

\* both sends of a run have returned, one after the append of its AI message
\* threw and one after initializeConfig threw and the append of its fallback
\* threw too; the flags are clear
C14_Witness ==
  /\ pc = "idle" /\ ~isSending /\ ~isTyping
  /\ \E n \in CISends : opLog[n].outcome = "replyStoreFailed"
  /\ \E n \in CISends :
       opLog[n].outcome = "fallbackStoreFailed" /\ opLog[n].failedAt = "initializeConfig"

(* ------------------------- history of a send --------------------------- *)
\* the chat the screen is mounted on already holds k messages, a question
\* and an answer in turn, the last of them the most recent
PriorContent(i) == IF i % 2 = 1 THEN <<"earlier question">> ELSE <<"earlier answer">>

PriorMessagesCI(k) ==
  [i \in 1..k |->
     IF i % 2 = 1 THEN userMessage(i - k - 1, PriorContent(i))
     ELSE aiMessage(i - k - 1, PriorContent(i), DefaultMood)]

PriorMessagesMA(k) ==
  [i \in 1..k |->
     storeMessage(i - k - 1, PriorContent(i),
                  IF i % 2 = 1 THEN "user" ELSE "ai", "chat-1")]

PriorOrigin(k) == [i \in 1..k |-> [op |-> 0, kind |-> "prior", t |-> i - k - 1]]

InitHistoryCommon ==
  /\ now = 0
  /\ message = <<>> /\ isTyping = FALSE /\ isSending = FALSE
  /\ pc = "idle" /\ cur = NoCur /\ timers = <<>> /\ chatUpdates = <<>>
  /\ messageInput = <<>> /\ isGenerating = FALSE
  /\ maPc = "idle" /\ maCur = NoCur
  /\ ops = 0 /\ calls = {} /\ opLog = <<>> /\ toasts = {}
  /\ ev = NoEv
  /\ fbInput = <<>> /\ fbFrags = 0 /\ fbOut = NoOut

\* either screen, mounted on a chat that is new or holds MaxPrior messages
InitHistory ==
  /\ InitHistoryCommon
  /\ \E k \in {0, MaxPrior} :
       \/ /\ screen = "CI"
          /\ userConsents = [moodDetection |-> TRUE, locationServices |-> FALSE]
          /\ settings = DefaultSettings
          /\ currentChatId = NoChat
          /\ messages = PriorMessagesCI(k)
          /\ stored = (k > 0)
          /\ maMessages = <<>>
          /\ origin = PriorOrigin(k)
       \/ /\ screen = "MA"
          /\ userConsents = DefaultConsents
          /\ settings = [aiConfigured |-> TRUE, moodDetection |-> FALSE]
          /\ currentChatId = IF k = 0 THEN NoChat ELSE "chat-1"
          /\ messages = <<>>
          /\ stored = FALSE
          /\ maMessages = PriorMessagesMA(k)
          /\ origin = PriorOrigin(k)

SpecHistory == InitHistory /\ [][Next]_vars

\* the messages stored in the chat before send n echoed its user message
Before(n) ==
  LET i == CHOOSE i \in UserMsgsOf(n) : TRUE IN SubSeq(Msgs, 1, i - 1)

HistorySender(e) ==
  IF "role" \in DOMAIN e
  THEN (IF e.role = "user" THEN "user" ELSE "ai")
  ELSE e.sender

\* h is the last Len(h) messages of list, entry by entry
IsTrailingSlice(h, list) ==
  /\ Len(h) <= Len(list)
  /\ \A j \in 1..Len(h) :
       LET m == list[Len(list) - Len(h) + j]
       IN /\ h[j].content = m.content
          /\ HistorySender(h[j]) = m.sender

\* C15 as stated: the history handed to the generation call of a send, in
\* MessagingApp and in ChatInterface alike, is a trailing slice of the
\* messages stored before the send and is never longer than the window of 10.
C15_Original ==
  \A c \in GenCalls(calls) :
    /\ UserMsgsOf(c.op) # {}
    /\ IsTrailingSlice(c.history, Before(c.op))
    /\ Len(c.history) <= HistoryWindow

\* what the two handlers do: MessagingApp hands over the last 10 messages
\* stored before the send (all of them when there are fewer), ChatInterface
\* hands over every message stored before the send
C15_AsBuilt ==
  \A c \in GenCalls(calls) :
    /\ UserMsgsOf(c.op) # {}
    /\ IsTrailingSlice(c.history, Before(c.op))
    /\ IF opLog[c.op].kind = "maSend"
       THEN Len(c.history) = IF Len(Before(c.op)) > HistoryWindow
                             THEN HistoryWindow ELSE Len(Before(c.op))
       ELSE Len(c.history) = Len(Before(c.op))

\* a MessagingApp send on a chat of more than 10 messages got the last 10
C15_WindowReached ==
  \E c \in GenCalls(calls) :
    /\ opLog[c.op].kind = "maSend"
    /\ Len(Before(c.op)) > HistoryWindow
    /\ Len(c.history) = HistoryWindow

(* ----------------------- accepted image uploads ------------------------ *)
Accepted(n) == opLog[n].kind = "upload" /\ opLog[n].input.size <= MaxFileSize

IsImageOf(m, n) ==
  /\ m.sender = "user"
  /\ m.type = "image"
  /\ m.content = ImagePrefix \o opLog[n].input.name

Scheduled(n) == \E k \in 1..Len(timers) : timers[k] = n

StoreFailures == {"echoFailed", "imageStoreFailed", "errorStoreFailed",
                  "billStoreFailed", "replyStoreFailed", "fallbackStoreFailed"}

\* the store has accepted every append of the run
NoStoreFailure == \A n \in Ops : opLog[n].outcome \notin StoreFailures

ImageThenBill(n) ==
  /\ Cardinality(UserMsgsOf(n)) = 1
  /\ Cardinality(AIMsgsOf(n)) = 1
  /\ \A i \in UserMsgsOf(n) : IsImageOf(Msgs[i], n)
  /\ \A j \in AIMsgsOf(n) :
       /\ IsBill(Msgs[j])
       /\ Msgs[j].metadata.actionItems # <<>>
       /\ \A i \in UserMsgsOf(n) : i < j

ImageOnly(n) ==
  /\ Cardinality(UserMsgsOf(n)) = 1
  /\ \A i \in UserMsgsOf(n) : IsImageOf(Msgs[i], n)
  /\ AIMsgsOf(n) = {}

\* the step just taken appended a bill message
BillAppended ==
  /\ Len(origin') = Len(origin) + 1
  /\ origin'[Len(origin')].kind = "bill"

\* C16 as stated, the store accepting every append: an upload of an image of
\* at most 10 MiB appends a user Message of type image naming the file at
\* once and, after the delay, exactly one AI bill Message with a non-empty
\* actionItems list after it and no error message; the typing indicator is
\* true between the two appends and false once the bill message is appended.
C16_Original ==
  /\ [](NoStoreFailure =>
         \A n \in Ops :
           Accepted(n) =>
             /\ opLog[n].outcome \in {"timerPending", "billed"}
             /\ opLog[n].outcome = "timerPending" =>
                  ImageOnly(n) /\ Scheduled(n) /\ isTyping
             /\ opLog[n].outcome = "billed" => ImageThenBill(n) /\ ~Scheduled(n))
  /\ [][BillAppended => ~isTyping']_vars

\* what processImageUpload does for an image of at most 10 MiB: when the
\* append of the image message throws nothing is stored or scheduled;
\* otherwise the image message is stored at once, the indicator is set and
\* one callback is scheduled; the callback appends exactly one bill Message
\* after the image message (none when that append throws) and clears the
\* indicator. Between the two appends the indicator is whatever the last
\* operation on the screen left it.
C16_AsBuilt ==
  /\ [](\A n \in Ops :
         Accepted(n) =>
           /\ opLog[n].outcome \in
                {"imageStoreFailed", "timerPending", "billed", "billStoreFailed"}
           /\ opLog[n].outcome = "imageStoreFailed" => MsgsOf(n) = {} /\ ~Scheduled(n)
           /\ opLog[n].outcome = "timerPending" => ImageOnly(n) /\ Scheduled(n)
           /\ opLog[n].outcome = "billed" => ImageThenBill(n) /\ ~Scheduled(n)
           /\ opLog[n].outcome = "billStoreFailed" => ImageOnly(n) /\ ~Scheduled(n))
  /\ [][Len(timers') < Len(timers) => ~isTyping']_vars
  /\ [][Len(timers') > Len(timers) => isTyping']_vars

\* an accepted upload is between its two appends with the indicator off
C16_IndicatorOffWhilePending ==
  /\ NoStoreFailure
  /\ \E n \in Ops : Accepted(n) /\ opLog[n].outcome = "timerPending" /\ ImageOnly(n)
  /\ ~isTyping

====
